---- MODULE Spec2Model ----
(***************************************************************************)
(* Model of the wordle-rs guessing engine: the feedback oracle             *)
(* (wordle_core::take_guess), the Knowledge constraint store and the four  *)
(* WordleAI strategies (RandomGuesser, RandomWithUpdates,                  *)
(* HeuristicGuesser, EntropyGuesser), and wordle_core::Game.               *)
(***************************************************************************)
EXTENDS Integers, Sequences, FiniteSets, TLC

\* ---------------------------------------------------------------- bounds
\* Number of words of WordPool used as inputs (guesses, secrets, list members).
NumWords == 5
\* Longest word list handed to a strategy at construction.
MaxList == 4
\* Number of update and mark_invalid calls explored between two resets.
MaxCalls == 2
\* Largest max_attempts a Game is created with.
MaxAttempts == 2
\* Most update and mark_invalid calls the guessing loop is followed for.
MaxTurns == 6

\* ------------------------------------------------------- program constants
WordLen == 5
Positions == 1..WordLen

all_letters ==
  {"a","b","c","d","e","f","g","h","i","j","k","l","m",
   "n","o","p","q","r","s","t","u","v","w","x","y","z"}

Correct == "Correct"
Misplaced == "Misplaced"
Absent == "Absent"
LetterResult == {Correct, Misplaced, Absent}

\* Option::None of make_guess, and the outcome of a failed assert!/unwrap;
\* sequences, as the words are, of another length.
None == <<"None">>
Panic == <<"Panic">>

\* ------------------------------------------------------------ input words
\* apple, about and hello are the word list of the repository's tests; admin and
\* kayak make the repeated-letter and the entropy cases happen with five words;
\* the last three are the repeated-letter words of the oracle's tests.
WordPool ==
  << <<"a","p","p","l","e">>,
     <<"a","b","o","u","t">>,
     <<"h","e","l","l","o">>,
     <<"a","d","m","i","n">>,
     <<"k","a","y","a","k">>,
     <<"a","x","a","x","a">>,
     <<"a","b","a","c","a">>,
     <<"a","a","y","a","a">> >>

PoolSize == IF NumWords < Len(WordPool) THEN NumWords ELSE Len(WordPool)
InputWords == {WordPool[i] : i \in 1..PoolSize}

Range(s) == {s[i] : i \in DOMAIN s}
MinOf(S) == CHOOSE x \in S : \A y \in S : x <= y

\* The word lists a strategy is built over: the prefixes of the pool (the empty
\* list included) and a list holding one word twice (a word list may hold
\* duplicates).
DuplicateList == <<WordPool[1], WordPool[2], WordPool[1]>>
WordLists ==
  {SubSeq(WordPool, 1, n) : n \in 0..PoolSize} \cup {DuplicateList}
BoundedWordLists == {l \in WordLists : Len(l) <= MaxList}

\* A list whose words kayak tells apart only by how often they hold 'a'.
RepeatedLetterList == <<WordPool[1], WordPool[2], WordPool[6], WordPool[5]>>

\* ------------------------------------------------- wordle_core::take_guess
\* Variant: the second pass does not consume the solution slot it matched.
RECURSIVE SecondPass_NoConsume(_, _, _, _, _)
SecondPass_NoConsume(i, result, solution_used, solution, guess) ==
  IF i > WordLen THEN result
  ELSE IF result[i] = Correct
    THEN SecondPass_NoConsume(i + 1, result, solution_used, solution, guess)
  ELSE LET J == {j \in Positions : ~solution_used[j] /\ solution[j] = guess[i]}
       IN IF J = {}
            THEN SecondPass_NoConsume(i + 1, result, solution_used, solution, guess)
            ELSE SecondPass_NoConsume(i + 1,
                                      [result EXCEPT ![i] = Misplaced],
                                      solution_used, solution, guess)

RECURSIVE SecondPass(_, _, _, _, _)
SecondPass(i, result, solution_used, solution, guess) ==
  IF i > WordLen THEN result
  ELSE IF result[i] = Correct
    THEN SecondPass(i + 1, result, solution_used, solution, guess)
  ELSE LET J == {j \in Positions : ~solution_used[j] /\ solution[j] = guess[i]}
       IN IF J = {}
            THEN SecondPass(i + 1, result, solution_used, solution, guess)
            ELSE SecondPass(i + 1,
                            [result EXCEPT ![i] = Misplaced],
                            [solution_used EXCEPT ![MinOf(J)] = TRUE],
                            solution, guess)

\* Variant: the first pass marks Correct without consuming the solution slot.
take_guess_FirstPassKeepsSlot(solution, guess) ==
  LET first == [i \in Positions |-> guess[i] = solution[i]]
  IN SecondPass(1,
                [i \in Positions |-> IF first[i] THEN Correct ELSE Absent],
                [i \in Positions |-> FALSE], solution, guess)

\* Variant: the second pass scans the guess from right to left.
RECURSIVE SecondPass_RightToLeft(_, _, _, _, _)
SecondPass_RightToLeft(i, result, solution_used, solution, guess) ==
  IF i < 1 THEN result
  ELSE IF result[i] = Correct
    THEN SecondPass_RightToLeft(i - 1, result, solution_used, solution, guess)
  ELSE LET J == {j \in Positions : ~solution_used[j] /\ solution[j] = guess[i]}
       IN IF J = {}
            THEN SecondPass_RightToLeft(i - 1, result, solution_used, solution, guess)
            ELSE SecondPass_RightToLeft(i - 1,
                                        [result EXCEPT ![i] = Misplaced],
                                        [solution_used EXCEPT ![MinOf(J)] = TRUE],
                                        solution, guess)

take_guess_RightToLeft(solution, guess) ==
  LET first == [i \in Positions |-> guess[i] = solution[i]]
  IN SecondPass_RightToLeft(WordLen,
                [i \in Positions |-> IF first[i] THEN Correct ELSE Absent],
                first, solution, guess)

take_guess(solution, guess) ==
  LET first == [i \in Positions |-> guess[i] = solution[i]]
  IN SecondPass(1,
                [i \in Positions |-> IF first[i] THEN Correct ELSE Absent],
                first, solution, guess)

\* -------------------------------------------------------------- Knowledge
Knowledge_new ==
  [possible_letters |-> [p \in Positions |-> all_letters],
   must_contain     |-> [letter \in {} |-> 0],
   fixed_positions  |-> [p \in Positions |-> FALSE]]

\* Variant: only the Correct hits are counted.
positive_counts_CorrectOnly(guess, result) ==
  [letter \in {guess[i] : i \in {j \in Positions : result[j] = Correct}} |->
     Cardinality({i \in Positions : guess[i] = letter /\ result[i] = Correct})]

\* First loop of Knowledge::update: Correct-or-Misplaced hits per letter.
positive_counts(guess, result) ==
  [letter \in {guess[i] : i \in {j \in Positions : result[j] # Absent}} |->
     Cardinality({i \in Positions : guess[i] = letter /\ result[i] # Absent})]

pos_count(pc, letter) == IF letter \in DOMAIN pc THEN pc[letter] ELSE 0

\* Variant: an Absent letter is removed from every non-fixed position even when
\* the same guess holds a Correct or Misplaced occurrence of it.
RECURSIVE PositionalPass_AbsentGlobal(_, _, _, _, _)
PositionalPass_AbsentGlobal(position, K, guess, result, pc) ==
  IF position > WordLen THEN K
  ELSE
    LET letter == guess[position]
        K2 ==
          CASE result[position] = Correct ->
                 [K EXCEPT !.possible_letters[position] = {letter},
                           !.fixed_positions[position] = TRUE]
            [] result[position] = Misplaced ->
                 [K EXCEPT !.possible_letters[position] = @ \ {letter}]
            [] OTHER ->
                 [K EXCEPT !.possible_letters =
                    [pos \in Positions |->
                       IF ~K.fixed_positions[pos]
                         THEN K.possible_letters[pos] \ {letter}
                         ELSE K.possible_letters[pos]]]
    IN PositionalPass_AbsentGlobal(position + 1, K2, guess, result, pc)

\* Variant: Correct inserts the letter without clearing the set first.
RECURSIVE PositionalPass_NoClear(_, _, _, _, _)
PositionalPass_NoClear(position, K, guess, result, pc) ==
  IF position > WordLen THEN K
  ELSE
    LET letter == guess[position]
        K2 ==
          CASE result[position] = Correct ->
                 [K EXCEPT !.possible_letters[position] = @ \cup {letter},
                           !.fixed_positions[position] = TRUE]
            [] result[position] = Misplaced ->
                 [K EXCEPT !.possible_letters[position] = @ \ {letter}]
            [] OTHER ->
                 IF pos_count(pc, letter) = 0
                   THEN [K EXCEPT !.possible_letters =
                           [pos \in Positions |->
                              IF ~K.fixed_positions[pos]
                                THEN K.possible_letters[pos] \ {letter}
                                ELSE K.possible_letters[pos]]]
                   ELSE [K EXCEPT !.possible_letters[position] = @ \ {letter}]
    IN PositionalPass_NoClear(position + 1, K2, guess, result, pc)

\* Variant: Correct narrows the position without recording it as fixed.
RECURSIVE PositionalPass_CorrectUnfixed(_, _, _, _, _)
PositionalPass_CorrectUnfixed(position, K, guess, result, pc) ==
  IF position > WordLen THEN K
  ELSE
    LET letter == guess[position]
        K2 ==
          CASE result[position] = Correct ->
                 [K EXCEPT !.possible_letters[position] = {letter}]
            [] result[position] = Misplaced ->
                 [K EXCEPT !.possible_letters[position] = @ \ {letter}]
            [] OTHER ->
                 IF pos_count(pc, letter) = 0
                   THEN [K EXCEPT !.possible_letters =
                           [pos \in Positions |->
                              IF ~K.fixed_positions[pos]
                                THEN K.possible_letters[pos] \ {letter}
                                ELSE K.possible_letters[pos]]]
                   ELSE [K EXCEPT !.possible_letters[position] = @ \ {letter}]
    IN PositionalPass_CorrectUnfixed(position + 1, K2, guess, result, pc)

\* Variant: Misplaced removes the letter from every position.
RECURSIVE PositionalPass_MisplacedGlobal(_, _, _, _, _)
PositionalPass_MisplacedGlobal(position, K, guess, result, pc) ==
  IF position > WordLen THEN K
  ELSE
    LET letter == guess[position]
        K2 ==
          CASE result[position] = Correct ->
                 [K EXCEPT !.possible_letters[position] = {letter},
                           !.fixed_positions[position] = TRUE]
            [] result[position] = Misplaced ->
                 [K EXCEPT !.possible_letters =
                    [pos \in Positions |-> K.possible_letters[pos] \ {letter}]]
            [] OTHER ->
                 IF pos_count(pc, letter) = 0
                   THEN [K EXCEPT !.possible_letters =
                           [pos \in Positions |->
                              IF ~K.fixed_positions[pos]
                                THEN K.possible_letters[pos] \ {letter}
                                ELSE K.possible_letters[pos]]]
                   ELSE [K EXCEPT !.possible_letters[position] = @ \ {letter}]
    IN PositionalPass_MisplacedGlobal(position + 1, K2, guess, result, pc)

\* Variant: an Absent letter without a positive hit is removed from every
\* position, fixed ones included.
RECURSIVE PositionalPass_AbsentIgnoresFixed(_, _, _, _, _)
PositionalPass_AbsentIgnoresFixed(position, K, guess, result, pc) ==
  IF position > WordLen THEN K
  ELSE
    LET letter == guess[position]
        K2 ==
          CASE result[position] = Correct ->
                 [K EXCEPT !.possible_letters[position] = {letter},
                           !.fixed_positions[position] = TRUE]
            [] result[position] = Misplaced ->
                 [K EXCEPT !.possible_letters[position] = @ \ {letter}]
            [] OTHER ->
                 IF pos_count(pc, letter) = 0
                   THEN [K EXCEPT !.possible_letters =
                           [pos \in Positions |-> K.possible_letters[pos] \ {letter}]]
                   ELSE [K EXCEPT !.possible_letters[position] = @ \ {letter}]
    IN PositionalPass_AbsentIgnoresFixed(position + 1, K2, guess, result, pc)

\* Variant: with a positive hit elsewhere, an Absent letter is removed from the
\* positions left of the Absent one as well.
RECURSIVE PositionalPass_AbsentPrefix(_, _, _, _, _)
PositionalPass_AbsentPrefix(position, K, guess, result, pc) ==
  IF position > WordLen THEN K
  ELSE
    LET letter == guess[position]
        K2 ==
          CASE result[position] = Correct ->
                 [K EXCEPT !.possible_letters[position] = {letter},
                           !.fixed_positions[position] = TRUE]
            [] result[position] = Misplaced ->
                 [K EXCEPT !.possible_letters[position] = @ \ {letter}]
            [] OTHER ->
                 IF pos_count(pc, letter) = 0
                   THEN [K EXCEPT !.possible_letters =
                           [pos \in Positions |->
                              IF ~K.fixed_positions[pos]
                                THEN K.possible_letters[pos] \ {letter}
                                ELSE K.possible_letters[pos]]]
                   ELSE [K EXCEPT !.possible_letters =
                           [pos \in Positions |->
                              IF pos <= position /\ ~K.fixed_positions[pos]
                                THEN K.possible_letters[pos] \ {letter}
                                ELSE K.possible_letters[pos]]]
    IN PositionalPass_AbsentPrefix(position + 1, K2, guess, result, pc)

\* Variant: an Absent letter without a positive hit is left where it was.
RECURSIVE PositionalPass_AbsentKeepsLetter(_, _, _, _, _)
PositionalPass_AbsentKeepsLetter(position, K, guess, result, pc) ==
  IF position > WordLen THEN K
  ELSE
    LET letter == guess[position]
        K2 ==
          CASE result[position] = Correct ->
                 [K EXCEPT !.possible_letters[position] = {letter},
                           !.fixed_positions[position] = TRUE]
            [] result[position] = Misplaced ->
                 [K EXCEPT !.possible_letters[position] = @ \ {letter}]
            [] OTHER ->
                 IF pos_count(pc, letter) = 0
                   THEN K
                   ELSE [K EXCEPT !.possible_letters[position] = @ \ {letter}]
    IN PositionalPass_AbsentKeepsLetter(position + 1, K2, guess, result, pc)

\* Second loop of Knowledge::update, one position per step, in order.
RECURSIVE PositionalPass(_, _, _, _, _)
PositionalPass(position, K, guess, result, pc) ==
  IF position > WordLen THEN K
  ELSE
    LET letter == guess[position]
        K2 ==
          CASE result[position] = Correct ->
                 [K EXCEPT !.possible_letters[position] = {letter},
                           !.fixed_positions[position] = TRUE]
            [] result[position] = Misplaced ->
                 [K EXCEPT !.possible_letters[position] = @ \ {letter}]
            [] OTHER ->
                 IF pos_count(pc, letter) = 0
                   THEN [K EXCEPT !.possible_letters =
                           [pos \in Positions |->
                              IF ~K.fixed_positions[pos]
                                THEN K.possible_letters[pos] \ {letter}
                                ELSE K.possible_letters[pos]]]
                   ELSE [K EXCEPT !.possible_letters[position] = @ \ {letter}]
    IN PositionalPass(position + 1, K2, guess, result, pc)

MaxNat(a, b) == IF a >= b THEN a ELSE b

\* Variant: a count, once recorded, is never raised.
merge_must_contain_KeepsFirst(must_contain, pc) ==
  [letter \in (DOMAIN must_contain) \cup (DOMAIN pc) |->
     IF letter \in DOMAIN must_contain THEN must_contain[letter] ELSE pc[letter]]

\* Variant: the count observed in this guess overwrites the recorded one.
merge_must_contain_Overwrite(must_contain, pc) ==
  [letter \in (DOMAIN must_contain) \cup (DOMAIN pc) |->
     IF letter \in DOMAIN pc THEN pc[letter] ELSE must_contain[letter]]

\* Third loop of Knowledge::update: must_contain = max(previous, observed).
merge_must_contain(must_contain, pc) ==
  [letter \in (DOMAIN must_contain) \cup (DOMAIN pc) |->
     IF letter \in DOMAIN pc
       THEN IF letter \in DOMAIN must_contain
              THEN MaxNat(must_contain[letter], pc[letter])
              ELSE pc[letter]
       ELSE must_contain[letter]]

Knowledge_update(K, guess, result) ==
  LET pc == positive_counts(guess, result)
      K2 == PositionalPass(1, K, guess, result, pc)
  IN [K2 EXCEPT !.must_contain = merge_must_contain(K.must_contain, pc)]

\* word.iter().filter(|c| c == letter).count()
RECURSIVE actual_count(_, _, _)
actual_count(word, letter, i) ==
  IF i > WordLen THEN 0
  ELSE (IF word[i] = letter THEN 1 ELSE 0) + actual_count(word, letter, i + 1)

\* Variant: a word holding exactly the required count of a letter is rejected.
Knowledge_matches_Strict(K, word) ==
  IF \E position \in Positions : word[position] \notin K.possible_letters[position]
    THEN FALSE
  ELSE IF \E letter \in DOMAIN K.must_contain :
            actual_count(word, letter, 1) <= K.must_contain[letter]
    THEN FALSE
  ELSE TRUE

Knowledge_matches(K, word) ==
  IF \E position \in Positions : word[position] \notin K.possible_letters[position]
    THEN FALSE
  ELSE IF \E letter \in DOMAIN K.must_contain :
            actual_count(word, letter, 1) < K.must_contain[letter]
    THEN FALSE
  ELSE TRUE

\* ------------------------------------------------------------- strategies
RandomGuesser == "RandomGuesser"
RandomWithUpdates == "RandomWithUpdates"
HeuristicGuesser == "HeuristicGuesser"
EntropyGuesser == "EntropyGuesser"
Strategies == {RandomGuesser, RandomWithUpdates, HeuristicGuesser, EntropyGuesser}
KnowledgeStrategies == {RandomWithUpdates, HeuristicGuesser, EntropyGuesser}

RECURSIVE SumFn(_, _)
SumFn(f, S) ==
  IF S = {} THEN 0
  ELSE LET x == CHOOSE y \in S : TRUE IN f[x] + SumFn(f, S \ {x})

\* Variant: the invalid set is not consulted.
get_candidates_IgnoresInvalid(wl, invalid, K) ==
  SelectSeq(wl, LAMBDA word : Knowledge_matches(K, word))

\* Variant: the knowledge is not consulted.
get_candidates_IgnoresKnowledge(wl, invalid, K) ==
  SelectSeq(wl, LAMBDA word : word \notin invalid)

\* get_candidates of RandomWithUpdates, HeuristicGuesser and EntropyGuesser:
\* wordlist.iter().filter(not invalid && knowledge.matches).collect()
get_candidates(wl, invalid, K) ==
  SelectSeq(wl, LAMBDA word : word \notin invalid /\ Knowledge_matches(K, word))

\* Variant: the accumulator is kept on equal scores, so the first maximum wins.
RECURSIVE max_by_fold_FirstWins(_, _, _)
max_by_fold_FirstWins(best, scored, i) ==
  IF i > Len(scored) THEN best
  ELSE max_by_fold_FirstWins(IF best.score >= scored[i].score THEN best ELSE scored[i],
                             scored, i + 1)

\* Iterator::max_by over a sequence of [word, score] pairs: the fold keeps the
\* accumulator only when it compares Greater, so the last maximum wins.
RECURSIVE max_by_fold(_, _, _)
max_by_fold(best, scored, i) ==
  IF i > Len(scored) THEN best
  ELSE max_by_fold(IF best.score > scored[i].score THEN best ELSE scored[i],
                   scored, i + 1)

max_by(scored) ==
  IF Len(scored) = 0 THEN None ELSE max_by_fold(scored[1], scored, 2).word

\* --- RandomGuesser
\* Variant: the last element is dropped and the element at idx stays.
swap_remove_DropsLast(v, idx) ==
  [i \in 1..(Len(v) - 1) |-> v[i]]

\* Vec::swap_remove(idx): the last element takes the place of the removed one.
swap_remove(v, idx) ==
  [i \in 1..(Len(v) - 1) |-> IF i = idx THEN v[Len(v)] ELSE v[i]]

\* Variant: the drawn word is returned without looking at the invalid set.
RandomGuesser_make_guess_NoInvalidCheck(wl, invalid, indices) ==
  IF Len(indices) = 0 THEN {[ret |-> None, indices |-> indices]}
  ELSE {[ret |-> wl[indices[idx] + 1], indices |-> swap_remove(indices, idx)]
          : idx \in 1..Len(indices)}

\* Every outcome of the draw loop of RandomGuesser::make_guess, over all
\* values of rng.random_range; wordlist indices are kept 0-based.
RECURSIVE RandomGuesser_make_guess(_, _, _)
RandomGuesser_make_guess(wl, invalid, indices) ==
  IF Len(indices) = 0 THEN {[ret |-> None, indices |-> indices]}
  ELSE UNION {
         LET word == wl[indices[idx] + 1]
             rest == swap_remove(indices, idx)
         IN IF word \notin invalid
              THEN {[ret |-> word, indices |-> rest]}
              ELSE RandomGuesser_make_guess(wl, invalid, rest)
         : idx \in 1..Len(indices)}

all_indices(wl) == [i \in 1..Len(wl) |-> i - 1]

\* Variant: the draw is among the non-invalid words of the list, matching or not.
RandomWithUpdates_make_guess_FromList(wl, invalid, K) ==
  LET allowed == SelectSeq(wl, LAMBDA word : word \notin invalid)
  IN IF Len(allowed) = 0 THEN {None}
     ELSE {allowed[idx] : idx \in 1..Len(allowed)}

\* --- RandomWithUpdates
RandomWithUpdates_make_guess(wl, invalid, K) ==
  LET candidates == get_candidates(wl, invalid, K)
  IN IF Len(candidates) = 0 THEN {None}
     ELSE {candidates[idx] : idx \in 1..Len(candidates)}

\* --- HeuristicGuesser
\* Binary entropy -(p log2 p + q log2 q) of p = count/total in millionths of
\* a bit, row total, column count.
BinaryEntropy ==
  << <<0>>,
     <<1000000, 0>>,
     <<918296, 918296, 0>>,
     <<811278, 1000000, 811278, 0>>,
     <<721928, 970951, 970951, 721928, 0>>,
     <<650022, 918296, 1000000, 918296, 650022, 0>>,
     <<591673, 863121, 985228, 985228, 863121, 591673, 0>>,
     <<543564, 811278, 954434, 1000000, 954434, 811278, 543564, 0>> >>

\* entropy(p) with p = count/total: 0 when p <= 0 or p >= 1.
entropy(count, total) ==
  IF count <= 0 \/ count >= total THEN 0 ELSE BinaryEntropy[total][count]

\* Variant: a letter is counted once per occurrence instead of once per word.
calculate_letter_frequencies_PerOccurrence(candidates) ==
  [counts |-> [letter \in UNION {Range(candidates[i]) : i \in DOMAIN candidates} |->
                 Cardinality({<<i, p>> \in (DOMAIN candidates) \X Positions :
                                candidates[i][p] = letter})],
   total  |-> Len(candidates)]

\* Number of candidate words holding each letter (once per word) and the
\* number of candidates; the frequency of a letter is counts[letter]/total.
calculate_letter_frequencies(candidates) ==
  [counts |-> [letter \in UNION {Range(candidates[i]) : i \in DOMAIN candidates} |->
                 Cardinality({i \in DOMAIN candidates : letter \in Range(candidates[i])})],
   total  |-> Len(candidates)]

\* assert!(0. < frequency && frequency <= 1.)
frequency_assertion(frequencies) ==
  \A letter \in DOMAIN frequencies.counts :
     0 < frequencies.counts[letter] /\ frequencies.counts[letter] <= frequencies.total

\* Variant: every position of the word contributes, repeated letters too.
score_word_PerPosition(word, frequencies) ==
  LET h == [position \in Positions |->
              entropy(IF word[position] \in DOMAIN frequencies.counts
                        THEN frequencies.counts[word[position]] ELSE 0,
                      frequencies.total)]
  IN SumFn(h, Positions)

score_word(word, frequencies) ==
  LET unique_letters == Range(word)
      h == [letter \in unique_letters |->
              entropy(IF letter \in DOMAIN frequencies.counts
                        THEN frequencies.counts[letter] ELSE 0,
                      frequencies.total)]
  IN SumFn(h, unique_letters)

\* Variant: the first candidate is returned without scoring.
HeuristicGuesser_make_guess_FirstCandidate(wl, invalid, K) ==
  LET candidates == get_candidates(wl, invalid, K)
  IN IF Len(candidates) = 0 THEN {None} ELSE {candidates[1]}

HeuristicGuesser_make_guess(wl, invalid, K) ==
  LET candidates == get_candidates(wl, invalid, K)
      frequencies == calculate_letter_frequencies(candidates)
  IN IF Len(candidates) = 0 THEN {None}
     ELSE IF ~frequency_assertion(frequencies) THEN {Panic}
     ELSE {max_by([i \in DOMAIN candidates |->
                     [word |-> candidates[i],
                      score |-> score_word(candidates[i], frequencies)]])}

\* --- EntropyGuesser
\* -p log2 p of p = count/total in millionths of a bit, row total, column count.
PLogP ==
  << <<0>>,
     <<500000, 0>>,
     <<528321, 389975, 0>>,
     <<500000, 500000, 311278, 0>>,
     <<464386, 528771, 442179, 257542, 0>>,
     <<430827, 528321, 500000, 389975, 219195, 0>>,
     <<401051, 516387, 523882, 461346, 346733, 190622, 0>>,
     <<375000, 500000, 530639, 500000, 423795, 311278, 168564, 0>> >>

pattern_counts(guess, candidates) ==
  [pattern \in {take_guess(candidates[i], guess) : i \in DOMAIN candidates} |->
     Cardinality({i \in DOMAIN candidates : take_guess(candidates[i], guess) = pattern})]

guess_entropy(guess, candidates) ==
  LET counts == pattern_counts(guess, candidates)
      terms == [pattern \in DOMAIN counts |-> PLogP[Len(candidates)][counts[pattern]]]
  IN SumFn(terms, DOMAIN counts)

\* Variant: only the candidates are scanned.
EntropyGuesser_make_guess_ScansCandidates(wl, invalid, K) ==
  LET candidates == get_candidates(wl, invalid, K)
  IN IF Len(candidates) = 0 THEN {None}
     ELSE IF Len(candidates) <= 2 THEN {candidates[1]}
     ELSE {max_by([i \in DOMAIN candidates |->
                     [word |-> candidates[i],
                      score |-> guess_entropy(candidates[i], candidates)]])}

\* Variant: the scan of the whole list is done whatever the number of candidates.
EntropyGuesser_make_guess_AlwaysScans(wl, invalid, K) ==
  LET candidates == get_candidates(wl, invalid, K)
      allowed == SelectSeq(wl, LAMBDA word : word \notin invalid)
  IN IF Len(candidates) = 0 THEN {None}
     ELSE {max_by([i \in DOMAIN allowed |->
                     [word |-> allowed[i],
                      score |-> guess_entropy(allowed[i], candidates)]])}

EntropyGuesser_make_guess(wl, invalid, K) ==
  LET candidates == get_candidates(wl, invalid, K)
      allowed == SelectSeq(wl, LAMBDA word : word \notin invalid)
  IN IF Len(candidates) = 0 THEN {None}
     ELSE IF Len(candidates) <= 2 THEN {candidates[1]}
     ELSE {max_by([i \in DOMAIN allowed |->
                     [word |-> allowed[i],
                      score |-> guess_entropy(allowed[i], candidates)]])}

\* ------------------------------------------------------------ the machine
VARIABLES
  kind,               \* which WordleAI implementation the object is
  wordlist,           \* wordlist: Vec<[char; 5]>
  knowledge,          \* knowledge: Knowledge (untouched by RandomGuesser)
  invalid_words,      \* invalid_words: HashSet<[char; 5]>
  available_indices,  \* RandomGuesser::available_indices (0-based indices)
  secret,             \* the solution the feedback comes from, or None
  calls,              \* update and mark_invalid calls since new or reset
  marked,             \* history: words passed to mark_invalid since then
  returned,           \* history: how often RandomGuesser returned each word since then
  last,               \* the last call: operation, arguments, returned value
  game,               \* wordle_core::Game: solution, max_attempts, attempts
  game_last,          \* the last Game::take_guess call: guess and returned value
  sim                 \* simulate_game: num_guesses and the value returned, if any

NoWord == << >>
NoResult == << >>

vars == <<kind, wordlist, knowledge, invalid_words, available_indices,
          secret, calls, marked, returned, last, game, game_last, sim>>

game_vars == <<game, game_last, sim>>

\* No Game object exists, and none was asked anything.
NoGame == [solution |-> None, max_attempts |-> 0, attempts |-> 0]
NoGuessResult == [guess |-> NoWord, ret |-> [tag |-> "None"]]

\* simulate_game is in its loop, or has returned Some(n) or None.
InLoop == <<"InLoop">>
Some(n) == <<"Some", n>>
\* simulate_game was not called.
NoSim == [num_guesses |-> 0, ret |-> <<"NotCalled">>]

\* No word of the list was returned yet.
NoneReturned(wl) == [word \in Range(wl) |-> 0]

\* calls_before is the value of calls when the call was made.
Call(op, guess, result, ret, before) ==
  [op |-> op, guess |-> guess, result |-> result, ret |-> ret, calls_before |-> before]

\* RandomGuesser::new / RandomWithUpdates::new / HeuristicGuesser::new /
\* EntropyGuesser::new over one of the bounded word lists.
NewOver(lists, s) ==
  /\ kind \in Strategies
  /\ wordlist \in lists
  /\ knowledge = Knowledge_new
  /\ invalid_words = {}
  /\ available_indices = IF kind = RandomGuesser THEN all_indices(wordlist) ELSE << >>
  /\ secret = s
  /\ calls = 0
  /\ marked = {}
  /\ returned = NoneReturned(wordlist)
  /\ game = NoGame /\ game_last = NoGuessResult /\ sim = NoSim
  /\ last = Call("new", NoWord, NoResult, None, 0)

New(s) == NewOver(BoundedWordLists, s)

Init == New(None)

InitHonest == \E s \in InputWords : New(s)

Running == last.ret # Panic

\* WordleAI::make_guess of the four implementations: the values it may return,
\* each with the index pool it leaves.
make_guess(k, wl, invalid, K, indices) ==
  CASE k = RandomGuesser -> RandomGuesser_make_guess(wl, invalid, indices)
    [] k = RandomWithUpdates ->
         {[ret |-> r, indices |-> indices] : r \in RandomWithUpdates_make_guess(wl, invalid, K)}
    [] k = HeuristicGuesser ->
         {[ret |-> r, indices |-> indices] : r \in HeuristicGuesser_make_guess(wl, invalid, K)}
    [] OTHER ->
         {[ret |-> r, indices |-> indices] : r \in EntropyGuesser_make_guess(wl, invalid, K)}

\* A call of WordleAI::make_guess.
MakeGuess ==
  /\ Running
  /\ \E o \in make_guess(kind, wordlist, invalid_words, knowledge, available_indices) :
        /\ available_indices' = o.indices
        /\ returned' = IF kind = RandomGuesser /\ o.ret # None
                         THEN [returned EXCEPT ![o.ret] = @ + 1]
                         ELSE returned
        /\ last' = Call("make_guess", NoWord, NoResult, o.ret, calls)
  /\ UNCHANGED <<kind, wordlist, knowledge, invalid_words, secret, calls, marked>>
  /\ UNCHANGED game_vars

\* WordleAI::update: a no-op in RandomGuesser, Knowledge::update in the others.
Update(guess, result) ==
  /\ Running
  /\ knowledge' = IF kind = RandomGuesser THEN knowledge
                  ELSE Knowledge_update(knowledge, guess, result)
  /\ calls' = calls + 1
  /\ last' = Call("update", guess, result, None, calls)
  /\ UNCHANGED <<kind, wordlist, invalid_words, available_indices, secret, marked,
                 returned>>
  /\ UNCHANGED game_vars

\* Variant: the invalid set keeps only the word marked last.
MarkInvalid_ForgetsOthers(word) ==
  /\ Running
  /\ invalid_words' = {word}
  /\ marked' = marked \cup {word}
  /\ calls' = calls + 1
  /\ last' = Call("mark_invalid", word, NoResult, None, calls)
  /\ UNCHANGED <<kind, wordlist, knowledge, available_indices, secret, returned>>
  /\ UNCHANGED game_vars

\* WordleAI::mark_invalid
MarkInvalid(word) ==
  /\ Running
  /\ invalid_words' = invalid_words \cup {word}
  /\ marked' = marked \cup {word}
  /\ calls' = calls + 1
  /\ last' = Call("mark_invalid", word, NoResult, None, calls)
  /\ UNCHANGED <<kind, wordlist, knowledge, available_indices, secret, returned>>
  /\ UNCHANGED game_vars

\* Variant: reset renews the knowledge and the pool but keeps the invalid set.
Reset_KeepsInvalid ==
  /\ last.ret # Panic
  /\ knowledge' = IF kind = RandomGuesser THEN knowledge ELSE Knowledge_new
  /\ available_indices' = IF kind = RandomGuesser THEN all_indices(wordlist)
                          ELSE available_indices
  /\ calls' = 0
  /\ marked' = {}
  /\ returned' = NoneReturned(wordlist)
  /\ last' = Call("reset", NoWord, NoResult, None, calls)
  /\ UNCHANGED <<kind, wordlist, secret, invalid_words>>
  /\ UNCHANGED game_vars

\* WordleAI::reset
Reset ==
  /\ Running
  /\ knowledge' = IF kind = RandomGuesser THEN knowledge ELSE Knowledge_new
  /\ invalid_words' = {}
  /\ available_indices' = IF kind = RandomGuesser THEN all_indices(wordlist)
                          ELSE available_indices
  /\ calls' = 0
  /\ marked' = {}
  /\ returned' = NoneReturned(wordlist)
  /\ last' = Call("reset", NoWord, NoResult, None, calls)
  /\ UNCHANGED <<kind, wordlist, secret>>
  /\ UNCHANGED game_vars

\* Feedback vectors fed to update when the caller is not bound to one secret:
\* the oracle's answer for any input word as solution, so that the answers of
\* successive updates may contradict each other.
Feedbacks(guess) == {take_guess(s, guess) : s \in InputWords}

UpdateAny ==
  /\ calls < MaxCalls
  /\ \E guess \in InputWords : \E result \in Feedbacks(guess) : Update(guess, result)

\* update(g, take_guess(secret, g)): the feedback of a real game.
UpdateHonest ==
  /\ calls < MaxCalls
  /\ \E guess \in InputWords : Update(guess, take_guess(secret, guess))

\* mark_invalid is called with a word the strategy suggested, a word of its list.
MarkInvalidAny ==
  /\ calls < MaxCalls
  /\ \E word \in Range(wordlist) : MarkInvalid(word)

Next == MakeGuess \/ UpdateAny \/ MarkInvalidAny \/ Reset

Spec == Init /\ [][Next]_vars

NextHonest == MakeGuess \/ UpdateHonest \/ MarkInvalidAny \/ Reset

SpecHonest == InitHonest /\ [][NextHonest]_vars

\* ------------------------------------------------ the caller's guessing loop
\* A strategy over a word list that holds the solution.
DriveWordLists == BoundedWordLists \cup {RepeatedLetterList}

InitDrive == \E s \in Range(WordPool) : NewOver(DriveWordLists, s) /\ s \in Range(wordlist)

\* let guess = ai.make_guess()
DriveMakeGuess ==
  /\ last.op \in {"new", "mark_invalid", "update"}
  /\ MakeGuess

\* ai.mark_invalid(guess): the game's dictionary rejected the guess.
DriveMarkInvalid ==
  /\ last.op = "make_guess"
  /\ last.ret \notin {None, Panic, secret}
  /\ calls < MaxTurns
  /\ MarkInvalid(last.ret)

\* ai.update(guess, result) with the feedback for a guess that did not win.
DriveUpdate ==
  /\ last.op = "make_guess"
  /\ last.ret \notin {None, Panic, secret}
  /\ calls < MaxTurns
  /\ Update(last.ret, take_guess(secret, last.ret))

NextDrive == DriveMakeGuess \/ DriveMarkInvalid \/ DriveUpdate

\* The loop runs on until make_guess returns the solution or nothing.
SpecDrive == InitDrive /\ [][NextDrive]_vars

\* ------------------------------------------------------ wordle_core::Game
\* Language::wordlist_set(): the words a Game accepts; one word outside it.
GameWords == Range(WordPool)
unlisted_word == <<"z", "z", "z", "z", "z">>
Guesses == GameWords \cup {unlisted_word}

\* No strategy object: the guesses come from a player.
NoStrategy == "NoStrategy"

\* Game::new(max_attempts, language): the solution is drawn from the language's
\* words by the rng.
InitGame ==
  /\ kind = NoStrategy
  /\ wordlist = << >>
  /\ knowledge = Knowledge_new
  /\ invalid_words = {}
  /\ available_indices = << >>
  /\ secret = None
  /\ calls = 0
  /\ marked = {}
  /\ returned = NoneReturned(wordlist)
  /\ last = Call("new", NoWord, NoResult, None, 0)
  /\ \E solution \in GameWords : \E max_attempts \in 0..MaxAttempts :
        game = [solution |-> solution, max_attempts |-> max_attempts, attempts |-> 0]
  /\ game_last = NoGuessResult
  /\ sim = NoSim

\* Variant: the attempt that reaches max_attempts still leaves one.
has_attempts_left_Inclusive(g) == g.attempts <= g.max_attempts

\* Game::has_attempts_left
has_attempts_left(g) == g.attempts < g.max_attempts

\* Variant: the last attempt is a loss, with the right word too.
Game_take_guess_LostFirst(g, listed, guess) ==
  IF guess \notin listed
    THEN [game |-> g, ret |-> [tag |-> "WordNotInList"]]
    ELSE LET result == take_guess(g.solution, guess)
             g2 == [g EXCEPT !.attempts = @ + 1]
             is_won == \A i \in Positions : result[i] = Correct
             is_last_attempt == ~has_attempts_left(g2)
         IN [game |-> g2,
             ret |-> CASE is_last_attempt ->
                            [tag |-> "Lost", last_guess |-> result,
                             solution |-> g2.solution]
                       [] ~is_last_attempt /\ is_won -> [tag |-> "Won", result |-> result]
                       [] OTHER -> [tag |-> "Continue", result |-> result]]

\* Game::take_guess of a game whose language lists the words of listed: the
\* game afterwards and the value returned.
Game_take_guess(g, listed, guess) ==
  IF guess \notin listed
    THEN [game |-> g, ret |-> [tag |-> "WordNotInList"]]
    ELSE LET result == take_guess(g.solution, guess)
             g2 == [g EXCEPT !.attempts = @ + 1]
             is_won == \A i \in Positions : result[i] = Correct
             is_last_attempt == ~has_attempts_left(g2)
         IN [game |-> g2,
             ret |-> CASE is_won -> [tag |-> "Won", result |-> result]
                       [] ~is_won /\ is_last_attempt ->
                            [tag |-> "Lost", last_guess |-> result,
                             solution |-> g2.solution]
                       [] OTHER -> [tag |-> "Continue", result |-> result]]

\* A call of Game::take_guess.
GameTakeGuess(guess) ==
  /\ LET o == Game_take_guess(game, GameWords, guess)
     IN /\ game' = o.game
        /\ game_last' = [guess |-> guess, ret |-> o.ret]
  /\ UNCHANGED <<kind, wordlist, knowledge, invalid_words, available_indices,
                 secret, calls, marked, returned, last, sim>>

\* A player keeps guessing, also after the game is decided.
Play ==
  /\ game.attempts <= MaxAttempts
  /\ \E guess \in Guesses : GameTakeGuess(guess)

NextGame == Play

SpecGame == InitGame /\ [][NextGame]_vars

\* ------------------------------------------------ wordle_ai_cli::simulate_game
\* run_simulation: a game and a strategy over the same word list, and
\* simulate_game entered.
InitSimulate ==
  /\ kind \in Strategies
  /\ wordlist \in DriveWordLists
  /\ knowledge = Knowledge_new
  /\ invalid_words = {}
  /\ available_indices = IF kind = RandomGuesser THEN all_indices(wordlist) ELSE << >>
  /\ \E solution \in Range(wordlist) : \E max_attempts \in 0..MaxAttempts :
        /\ game = [solution |-> solution, max_attempts |-> max_attempts, attempts |-> 0]
        /\ secret = solution
  /\ calls = 0
  /\ marked = {}
  /\ returned = NoneReturned(wordlist)
  /\ last = Call("new", NoWord, NoResult, None, 0)
  /\ game_last = NoGuessResult
  /\ sim = [num_guesses |-> 0, ret |-> InLoop]

\* One pass through the loop of simulate_game.
SimulateStep ==
  /\ sim.ret = InLoop
  /\ \E o \in make_guess(kind, wordlist, invalid_words, knowledge, available_indices) :
        LET guess == o.ret
            num_guesses == sim.num_guesses + 1
            answer == Game_take_guess(game, Range(wordlist), guess)
            tag == answer.ret.tag
        IN /\ available_indices' = o.indices
           /\ IF guess \in {None, Panic}
                THEN /\ sim' = [sim EXCEPT !.ret = guess]
                     /\ last' = Call("make_guess", NoWord, NoResult, guess, calls)
                     /\ UNCHANGED <<knowledge, invalid_words, calls, marked, returned,
                                    game, game_last>>
                ELSE /\ returned' = IF kind = RandomGuesser
                                      THEN [returned EXCEPT ![guess] = @ + 1]
                                      ELSE returned
                     /\ game' = answer.game
                     /\ game_last' = [guess |-> guess, ret |-> answer.ret]
                     /\ sim' = [num_guesses |-> num_guesses,
                                ret |-> CASE tag = "Won" -> Some(num_guesses)
                                          [] tag = "Lost" -> None
                                          [] OTHER -> InLoop]
                     /\ knowledge' = IF tag = "Continue" /\ kind # RandomGuesser
                                       THEN Knowledge_update(knowledge, guess, answer.ret.result)
                                       ELSE knowledge
                     /\ invalid_words' = IF tag = "WordNotInList"
                                           THEN invalid_words \cup {guess}
                                           ELSE invalid_words
                     /\ marked' = IF tag = "WordNotInList" THEN marked \cup {guess}
                                    ELSE marked
                     /\ calls' = IF tag \in {"Continue", "WordNotInList"} THEN calls + 1
                                   ELSE calls
                     /\ last' = CASE tag = "Continue" ->
                                       Call("update", guess, answer.ret.result, None, calls)
                                  [] tag = "WordNotInList" ->
                                       Call("mark_invalid", guess, NoResult, None, calls)
                                  [] OTHER ->
                                       Call("make_guess", NoWord, NoResult, guess, calls)
  /\ UNCHANGED <<kind, wordlist, secret>>

NextSimulate == SimulateStep

SpecSimulate == InitSimulate /\ [][NextSimulate]_vars

\* ------------------------------------------------- Knowledge on its own
\* Knowledge::new(), held by no strategy.
InitKnowledge ==
  /\ kind = NoStrategy
  /\ wordlist = << >>
  /\ knowledge = Knowledge_new
  /\ invalid_words = {}
  /\ available_indices = << >>
  /\ secret = None
  /\ calls = 0
  /\ marked = {}
  /\ returned = NoneReturned(wordlist)
  /\ last = Call("new", NoWord, NoResult, None, 0)
  /\ game = NoGame /\ game_last = NoGuessResult /\ sim = NoSim

\* Knowledge::update(guess, result)
KnowledgeUpdate(guess, result) ==
  /\ knowledge' = Knowledge_update(knowledge, guess, result)
  /\ calls' = calls + 1
  /\ last' = Call("update", guess, result, None, calls)
  /\ UNCHANGED <<kind, wordlist, invalid_words, available_indices, secret, marked,
                 returned>>
  /\ UNCHANGED game_vars

\* The object is replaced by Knowledge::new().
KnowledgeNew ==
  /\ knowledge' = Knowledge_new
  /\ calls' = 0
  /\ last' = Call("new", NoWord, NoResult, None, calls)
  /\ UNCHANGED <<kind, wordlist, invalid_words, available_indices, secret, marked,
                 returned>>
  /\ UNCHANGED game_vars

\* update with any word of the pool as guess and the oracle's answer for any
\* word of the pool as solution; successive answers may contradict each other.
KnowledgeUpdateAny ==
  /\ calls < MaxCalls
  /\ \E guess \in Range(WordPool) : \E solution \in Range(WordPool) :
        KnowledgeUpdate(guess, take_guess(solution, guess))

NextKnowledge == KnowledgeUpdateAny \/ KnowledgeNew

SpecKnowledge == InitKnowledge /\ [][NextKnowledge]_vars

\* Knowledge::new() at the start of a puzzle whose solution is a word of the pool.
InitKnowledgeHonest ==
  /\ kind = NoStrategy
  /\ wordlist = << >>
  /\ knowledge = Knowledge_new
  /\ invalid_words = {}
  /\ available_indices = << >>
  /\ secret \in Range(WordPool)
  /\ calls = 0
  /\ marked = {}
  /\ returned = NoneReturned(wordlist)
  /\ last = Call("new", NoWord, NoResult, None, 0)
  /\ game = NoGame /\ game_last = NoGuessResult /\ sim = NoSim

\* update(guess, take_guess(secret, guess)) with any word of the pool as guess.
KnowledgeUpdateHonest ==
  /\ calls < MaxCalls
  /\ \E guess \in Range(WordPool) : KnowledgeUpdate(guess, take_guess(secret, guess))

NextKnowledgeHonest == KnowledgeUpdateHonest \/ KnowledgeNew

SpecKnowledgeHonest == InitKnowledgeHonest /\ [][NextKnowledgeHonest]_vars

\* ------------------------------------------------------------ properties
IsWord(x) == x \notin {None, Panic}
UpdateStep == last'.op = "update" /\ kind # RandomGuesser

\* Occurrences of a letter in a word, and its Correct-or-Misplaced positions
\* in a guess, counted as sets of positions.
Occurrences(word, letter) == Cardinality({i \in Positions : word[i] = letter})
PositiveCount(guess, result, letter) ==
  Cardinality({i \in Positions : guess[i] = letter /\ result[i] # Absent})

\* The two conditions of the matching predicate, stated on the word.
PositionsPermit(K, word) == \A p \in Positions : word[p] \in K.possible_letters[p]
CountsSuffice(K, word) ==
  \A L \in DOMAIN K.must_contain : Occurrences(word, L) >= K.must_contain[L]

\* C1: under honest feedback for one fixed secret (SpecHonest), the secret
\* satisfies Knowledge.matches after every update.
C1_SecretAlwaysMatches ==
  kind \in KnowledgeStrategies => Knowledge_matches(knowledge, secret)

\* Two honest updates, the last a wrong guess with a Misplaced and an Absent
\* occurrence of the same letter, and the secret still matches.
C1_Witness ==
  /\ kind \in KnowledgeStrategies
  /\ last.op = "update" /\ calls = 2 /\ last.guess # secret
  /\ \E i, j \in Positions :
        /\ last.guess[i] = last.guess[j]
        /\ last.result[i] = Misplaced /\ last.result[j] = Absent
  /\ Knowledge_matches(knowledge, secret)

\* C2: Knowledge.matches(word) is true iff every letter of the word is possible
\* at its position and the word holds at least must_contain[L] occurrences of
\* every recorded letter L.
C2_MatchesIffPermittedAndCounted ==
  \A word \in Range(WordPool) :
     Knowledge_matches(knowledge, word)
       <=> (PositionsPermit(knowledge, word) /\ CountsSuffice(knowledge, word))

\* Each way of failing and of passing occurs: a word rejected by its counts
\* alone, one rejected by a position alone, and one that holds exactly the
\* required count of a letter and matches.
C2_Witness ==
  /\ kind \in KnowledgeStrategies /\ calls > 0
  /\ \E w \in Range(WordPool) :
        PositionsPermit(knowledge, w) /\ ~CountsSuffice(knowledge, w)
  /\ \E w \in Range(WordPool) :
        ~PositionsPermit(knowledge, w) /\ CountsSuffice(knowledge, w)
  /\ \E w \in Range(WordPool) :
        /\ Knowledge_matches(knowledge, w)
        /\ \E L \in DOMAIN knowledge.must_contain :
              Occurrences(w, L) = knowledge.must_contain[L]

\* C3 as claimed: no update ever adds a letter to possible_letters[p].
C3_NeverGrows ==
  [][UpdateStep =>
       \A p \in Positions :
          knowledge'.possible_letters[p] \subseteq knowledge.possible_letters[p]]_vars

\* C3 amended: an update adds no letter to possible_letters[p], except that a
\* Correct at p for a letter no longer possible there makes the set {guess[p]}.
C3_GrowsOnlyByContradictedCorrect ==
  [][UpdateStep =>
       \A p \in Positions :
          \/ knowledge'.possible_letters[p] \subseteq knowledge.possible_letters[p]
          \/ /\ last'.result[p] = Correct
             /\ last'.guess[p] \notin knowledge.possible_letters[p]
             /\ knowledge'.possible_letters[p] = {last'.guess[p]}]_vars

\* A second update that pinned one position and left another, narrowed,
\* position with more than one letter.
C3_Witness ==
  /\ kind \in KnowledgeStrategies
  /\ last.op = "update" /\ calls = 2
  /\ \E p, q \in Positions :
        /\ last.result[p] = Correct
        /\ knowledge.possible_letters[p] = {last.guess[p]}
        /\ last.result[q] # Correct
        /\ knowledge.possible_letters[q] # all_letters
        /\ Cardinality(knowledge.possible_letters[q]) > 1

\* C4: an update sets must_contain[L] to max(previous or 0, positiveCount[L])
\* for every letter with positiveCount[L] > 0 and leaves every other entry,
\* present or missing, as it was.
C4_MustContainIsMax ==
  [][UpdateStep =>
       \A L \in all_letters :
          LET n == PositiveCount(last'.guess, last'.result, L)
              before == IF L \in DOMAIN knowledge.must_contain
                          THEN knowledge.must_contain[L] ELSE 0
          IN IF n > 0
               THEN /\ L \in DOMAIN knowledge'.must_contain
                    /\ knowledge'.must_contain[L] = (IF before >= n THEN before ELSE n)
               ELSE /\ (L \in DOMAIN knowledge'.must_contain)
                          <=> (L \in DOMAIN knowledge.must_contain)
                    /\ L \in DOMAIN knowledge.must_contain
                          => knowledge'.must_contain[L] = knowledge.must_contain[L]]_vars

\* After a second update a letter keeps a recorded count that is larger than
\* the positive count it had in that update, and another letter is untouched.
C4_Witness ==
  /\ kind \in KnowledgeStrategies
  /\ last.op = "update" /\ calls = 2
  /\ \E L \in DOMAIN knowledge.must_contain :
        /\ PositiveCount(last.guess, last.result, L) > 0
        /\ knowledge.must_contain[L] > PositiveCount(last.guess, last.result, L)
  /\ \E L \in DOMAIN knowledge.must_contain :
        PositiveCount(last.guess, last.result, L) = 0

\* The candidate test and the candidate list, stated on the word list.
Candidate(word) ==
  /\ word \notin invalid_words
  /\ PositionsPermit(knowledge, word)
  /\ CountsSuffice(knowledge, word)
CandidateIndices == {i \in DOMAIN wordlist : Candidate(wordlist[i])}
KthCandidateIndex(k) ==
  CHOOSE i \in CandidateIndices : Cardinality({j \in CandidateIndices : j <= i}) = k
Returned == last.op = "make_guess" /\ IsWord(last.ret)

\* C5: since the last reset, no make_guess call returns a word that
\* mark_invalid was called with.
C5_InvalidNeverReturned == Returned => last.ret \notin marked

\* make_guess returned a word although a word of the list that satisfies the
\* knowledge is marked invalid, after an update.
C5_Witness ==
  /\ Returned /\ calls = 2
  /\ knowledge # Knowledge_new
  /\ \E w \in marked : w \in Range(wordlist) /\ Knowledge_matches(knowledge, w)

\* C6: reset leaves a fresh Knowledge, an empty invalid set, in RandomGuesser a
\* pool of every word-list index, and the word list it had.
C6_ResetRestoresFreshState ==
  [][last'.op = "reset" =>
       /\ \A p \in Positions : knowledge'.possible_letters[p] = all_letters
       /\ DOMAIN knowledge'.must_contain = {}
       /\ \A p \in Positions : ~knowledge'.fixed_positions[p]
       /\ invalid_words' = {}
       /\ kind = RandomGuesser =>
            /\ Len(available_indices') = Len(wordlist)
            /\ \A i \in 1..Len(wordlist) : available_indices'[i] = i - 1
       /\ wordlist' = wordlist /\ kind' = kind]_vars

\* reset was called after two update or mark_invalid calls.
C6_Witness ==
  /\ last.op = "reset" /\ last.calls_before = 2
  /\ Len(wordlist) >= 2

\* C7: make_guess never panics; RandomWithUpdates, HeuristicGuesser and
\* EntropyGuesser return None exactly when no word of the list is a candidate,
\* RandomGuesser exactly when no pool index holds a non-invalid word; with
\* every word of the list marked invalid all four return None.
C7_ExhaustionIsNone ==
  [][last'.op = "make_guess" =>
       /\ last'.ret # Panic
       /\ kind \in KnowledgeStrategies =>
            (last'.ret = None <=> CandidateIndices = {})
       /\ kind = RandomGuesser =>
            (last'.ret = None <=>
               ~\E k \in DOMAIN available_indices :
                   wordlist[available_indices[k] + 1] \notin invalid_words)
       /\ Range(wordlist) \subseteq invalid_words => last'.ret = None]_vars

\* HeuristicGuesser over a two-word list with both words marked invalid
\* returned None.
C7_Witness ==
  /\ kind = HeuristicGuesser
  /\ last.op = "make_guess" /\ last.ret = None
  /\ Len(wordlist) = 2 /\ Range(wordlist) \subseteq invalid_words

\* C8: under honest feedback (SpecHonest), with the secret in the word list and
\* not marked invalid, make_guess of a Knowledge-consuming strategy never
\* returns None.
C8_HonestNeverExhausts ==
  (/\ last.op = "make_guess"
   /\ kind \in KnowledgeStrategies
   /\ secret \in Range(wordlist)
   /\ secret \notin invalid_words) => last.ret # None

\* A guess was returned after a wrong guess was fed back and another word of
\* the list was marked invalid.
C8_Witness ==
  /\ Returned /\ kind \in KnowledgeStrategies /\ calls = 2
  /\ secret \in Range(wordlist) /\ secret \notin invalid_words
  /\ invalid_words # {} /\ knowledge # Knowledge_new

\* C9 as claimed: the word returned by RandomWithUpdates, HeuristicGuesser or
\* EntropyGuesser satisfies Knowledge.matches.
C9_GuessMatchesKnowledge ==
  (Returned /\ kind \in KnowledgeStrategies) => Knowledge_matches(knowledge, last.ret)

\* C9 amended: the word returned by RandomWithUpdates or HeuristicGuesser, and
\* by EntropyGuesser when at most two candidates are left, satisfies
\* Knowledge.matches; with more candidates EntropyGuesser returns a word of
\* the list that is not marked invalid.
C9_GuessMatchesUnlessEntropyScan ==
  (Returned /\ kind \in KnowledgeStrategies) =>
     IF kind = EntropyGuesser /\ Cardinality(CandidateIndices) > 2
       THEN last.ret \in Range(wordlist) \ invalid_words
       ELSE Knowledge_matches(knowledge, last.ret)

\* After an update that excluded a word of the list, RandomWithUpdates
\* returned a matching word.
C9_Witness ==
  /\ Returned /\ kind = RandomWithUpdates
  /\ \E w \in Range(wordlist) \ invalid_words : ~Knowledge_matches(knowledge, w)
  /\ Knowledge_matches(knowledge, last.ret)

apple == <<"a", "p", "p", "l", "e">>
about == <<"a", "b", "o", "u", "t">>
hello == <<"h", "e", "l", "l", "o">>

\* C10: get_candidates is the word list, in order, without the words that are
\* marked invalid or fail Knowledge.matches; after update(apple, [Correct,
\* Absent, Absent, Absent, Absent]) over [apple, about, hello] it is [about];
\* RandomWithUpdates.make_guess returns a member of it.
C10_CandidatesAreFilteredList ==
  kind \in KnowledgeStrategies =>
    LET candidates == get_candidates(wordlist, invalid_words, knowledge)
    IN /\ Len(candidates) = Cardinality(CandidateIndices)
       /\ \A k \in 1..Len(candidates) : candidates[k] = wordlist[KthCandidateIndex(k)]
       /\ (/\ wordlist = <<apple, about, hello>>
           /\ invalid_words = {} /\ calls = 1 /\ last.op = "update"
           /\ last.guess = apple
           /\ last.result = <<Correct, Absent, Absent, Absent, Absent>>)
          => candidates = <<about>>
       /\ (Returned /\ kind = RandomWithUpdates) => last.ret \in Range(candidates)

\* The state of the example: one update(apple, [Correct, Absent x 4]) over
\* [apple, about, hello].
C10_Witness ==
  /\ kind = RandomWithUpdates
  /\ wordlist = <<apple, about, hello>>
  /\ invalid_words = {} /\ calls = 1 /\ last.op = "update"
  /\ last.guess = apple
  /\ last.result = <<Correct, Absent, Absent, Absent, Absent>>

\* Occurrences of a word in a sequence of words, and the number of words
\* returned since new or reset.
TimesIn(seq, word) == Cardinality({i \in DOMAIN seq : seq[i] = word})
NumReturned == SumFn(returned, DOMAIN returned)

\* The parts of the draw that do not depend on the words being distinct: every
\* returned word is a word of the list, at most |wordlist| calls return a word,
\* and while no word is marked invalid a call returns None only after
\* |wordlist| calls returned a word.
PoolAccounting ==
  /\ DOMAIN returned = Range(wordlist)
  /\ (last.op = "make_guess" /\ last.ret # None)
       => (last.ret \in Range(wordlist) /\ returned[last.ret] >= 1)
  /\ NumReturned <= Len(wordlist)
  /\ marked = {} => NumReturned + Len(available_indices) = Len(wordlist)
  /\ (last.op = "make_guess" /\ marked = {} /\ last.ret = None)
       => NumReturned = Len(wordlist)

\* C11 as claimed: between new/reset and the next reset RandomGuesser returns
\* words of the list, no word twice, at most |wordlist| of them, and with no
\* word marked invalid exactly the first |wordlist| calls return a word.
C11_NoWordTwice ==
  kind = RandomGuesser =>
    /\ PoolAccounting
    /\ \A w \in Range(wordlist) : returned[w] <= 1

\* C11 amended: as claimed, except that a word is returned at most as often as
\* it occurs in the list (never twice when the list holds it once).
C11_DrawsWithoutReplacement ==
  kind = RandomGuesser =>
    /\ PoolAccounting
    /\ \A w \in Range(wordlist) : returned[w] <= TimesIn(wordlist, w)

\* With no word marked invalid, a list of three or more distinct words was
\* returned whole and the next call returned None.
C11_Witness ==
  /\ kind = RandomGuesser /\ marked = {}
  /\ Len(wordlist) >= 3 /\ Cardinality(Range(wordlist)) = Len(wordlist)
  /\ NumReturned = Len(wordlist)
  /\ last.op = "make_guess" /\ last.ret = None

\* The feedback vector of the last Game::take_guess call, when it gave one.
Scored == game_last.ret.tag \in {"Won", "Lost", "Continue"}
LastScore ==
  IF game_last.ret.tag = "Lost" THEN game_last.ret.last_guess ELSE game_last.ret.result

axaxa == <<"a", "x", "a", "x", "a">>
abaca == <<"a", "b", "a", "c", "a">>
aayaa == <<"a", "a", "y", "a", "a">>

\* C12 as claimed: guess abaca against secret axaxa scores
\* [Correct, Misplaced, Absent, Absent, Correct].
C12_AbacaScoresMisplaced ==
  (Scored /\ game.solution = axaxa /\ game_last.guess = abaca)
     => LastScore = <<Correct, Misplaced, Absent, Absent, Correct>>

\* C12 amended: guess abaca against secret axaxa scores [Correct, Absent,
\* Correct, Absent, Correct]; the vector [Correct, Misplaced, Absent, Absent,
\* Correct] is the score of guess aayaa against that secret.
C12_AbacaScoresCorrect ==
  /\ (Scored /\ game.solution = axaxa /\ game_last.guess = abaca)
       => LastScore = <<Correct, Absent, Correct, Absent, Correct>>
  /\ (Scored /\ game.solution = axaxa /\ game_last.guess = aayaa)
       => LastScore = <<Correct, Misplaced, Absent, Absent, Correct>>

\* abaca was guessed in a game whose solution is axaxa, and scored.
C12_Witness ==
  Scored /\ game.solution = axaxa /\ game_last.guess = abaca

\* C16: the feedback of take_guess(solution, guess) is Correct exactly at the
\* positions where guess and solution agree; of the other guess positions
\* holding a letter L, in left-to-right order, the first k are Misplaced and
\* the rest Absent, k being the number of solution positions holding L where
\* the guess does not hold L; the Correct-or-Misplaced marks of L number
\* min(occurrences in guess, occurrences in solution); the feedback is all
\* Correct iff guess = solution.
C16_TwoPassReference ==
  Scored =>
    LET guess == game_last.guess
        solution == game.solution
        result == LastScore
    IN /\ \A i \in Positions : result[i] = Correct <=> guess[i] = solution[i]
       /\ \A L \in Range(guess) :
            LET open == {i \in Positions : guess[i] = L /\ solution[i] # L}
                k == Cardinality({j \in Positions : solution[j] = L /\ guess[j] # L})
            IN \A i \in open :
                 result[i] = IF Cardinality({h \in open : h <= i}) <= k
                               THEN Misplaced ELSE Absent
       /\ \A L \in Range(guess) :
            PositiveCount(guess, result, L) =
              (IF Occurrences(guess, L) <= Occurrences(solution, L)
                 THEN Occurrences(guess, L) ELSE Occurrences(solution, L))
       /\ (\A i \in Positions : result[i] = Correct) <=> guess = solution

\* One letter of the guess is Correct at one position, Misplaced at a second
\* and Absent at a later third.
C16_Witness ==
  /\ Scored
  /\ \E h, i, j \in Positions :
        /\ i < j
        /\ game_last.guess[h] = game_last.guess[i]
        /\ game_last.guess[i] = game_last.guess[j]
        /\ LastScore[h] = Correct /\ LastScore[i] = Misplaced /\ LastScore[j] = Absent

\* H(frequency[L]) in millionths of a bit: 0 for a letter without an entry and
\* for a frequency of 0 or 1.
LetterValue(L, frequencies) ==
  IF L \notin DOMAIN frequencies.counts THEN 0
  ELSE IF frequencies.counts[L] <= 0 \/ frequencies.counts[L] >= frequencies.total THEN 0
  ELSE BinaryEntropy[frequencies.total][frequencies.counts[L]]

\* The value of the letter at position p if it is the letter's first occurrence.
FirstOccurrenceValue(word, p, frequencies) ==
  IF \E q \in 1..(p - 1) : word[q] = word[p] THEN 0
  ELSE LetterValue(word[p], frequencies)

\* Every distinct letter of apple in one of two candidates: frequency 0.5.
half_frequencies == [counts |-> [L \in {"a", "p", "l", "e"} |-> 1], total |-> 2]

C14_ShortCircuitReturnsFirst ==
  (/\ last.op = "make_guess" /\ kind = EntropyGuesser
   /\ Cardinality(CandidateIndices) \in {1, 2})
     => last.ret = wordlist[KthCandidateIndex(1)]

\* EntropyGuesser returned the first of two candidates although another word of
\* the list, not marked invalid, splits the candidates as well and comes later.
C14_Witness ==
  /\ last.op = "make_guess" /\ kind = EntropyGuesser
  /\ Cardinality(CandidateIndices) = 2
  /\ last.ret = wordlist[KthCandidateIndex(1)]
  /\ LET candidates == get_candidates(wordlist, invalid_words, knowledge)
     IN \E i \in DOMAIN wordlist :
          /\ i > KthCandidateIndex(2)
          /\ wordlist[i] \notin invalid_words
          /\ guess_entropy(wordlist[i], candidates) >= guess_entropy(last.ret, candidates)

\* C15: make_guess leaves the knowledge, the invalid set and the word list
\* unchanged; update leaves the invalid set and the word list unchanged and in
\* RandomGuesser also the pool and everything else; mark_invalid(w) adds
\* exactly w to the invalid set and leaves the knowledge, the pool and the word
\* list unchanged; the invalid set changes only by mark_invalid and reset, and
\* loses words only by reset.
C15_Frame ==
  [][/\ last'.op = "make_guess" =>
          /\ knowledge' = knowledge
          /\ invalid_words' = invalid_words
          /\ wordlist' = wordlist
     /\ last'.op = "update" =>
          /\ invalid_words' = invalid_words
          /\ wordlist' = wordlist
          /\ kind = RandomGuesser =>
               /\ available_indices' = available_indices
               /\ knowledge' = knowledge
               /\ kind' = kind
     /\ last'.op = "mark_invalid" =>
          /\ invalid_words' = invalid_words \cup {last'.guess}
          /\ knowledge' = knowledge
          /\ available_indices' = available_indices
          /\ wordlist' = wordlist
     /\ invalid_words' # invalid_words => last'.op \in {"mark_invalid", "reset"}
     /\ ~(invalid_words \subseteq invalid_words') => last'.op = "reset"]_vars

\* mark_invalid was called on a strategy that already held an invalid word and,
\* for RandomGuesser, had drawn from its pool.
C15_Witness ==
  /\ last.op = "mark_invalid"
  /\ Cardinality(invalid_words) = 2
  /\ kind = RandomGuesser /\ \E w \in DOMAIN returned : returned[w] > 0

\* C17: after an update every position whose feedback is Correct holds exactly
\* the guessed letter and is fixed; a position is fixed iff some update since
\* Knowledge::new had Correct there: a fresh Knowledge has no fixed position,
\* and an update fixes the Correct positions and keeps the fixed ones.
C17_CorrectPinsPosition ==
  /\ \A p \in Positions : ~knowledge.fixed_positions[p]
  /\ [][/\ UpdateStep =>
             \A p \in Positions :
                /\ last'.result[p] = Correct =>
                     /\ knowledge'.possible_letters[p] = {last'.guess[p]}
                     /\ knowledge'.fixed_positions[p]
                /\ knowledge'.fixed_positions[p]
                     <=> (knowledge.fixed_positions[p] \/ last'.result[p] = Correct)
        /\ last'.op = "new" => \A p \in Positions : ~knowledge'.fixed_positions[p]]_vars

\* A second update pinned a position while a position pinned by the first,
\* not Correct this time, stayed fixed.
C17_Witness ==
  /\ last.op = "update" /\ calls = 2
  /\ \E p, q \in Positions :
        /\ knowledge.fixed_positions[p] /\ last.result[p] # Correct
        /\ last.result[q] = Correct
        /\ knowledge.possible_letters[q] = {last.guess[q]}
        /\ knowledge.fixed_positions[q]

\* C18 as claimed: a letter L Misplaced at p is not possible at p afterwards,
\* and from a fresh Knowledge, L occurring nowhere else in the guess, L is
\* still possible at every other position.
C18_MisplacedKeepsLetterElsewhere ==
  [][UpdateStep =>
       \A p \in Positions :
          last'.result[p] = Misplaced =>
            LET L == last'.guess[p]
            IN /\ L \notin knowledge'.possible_letters[p]
               /\ (knowledge = Knowledge_new /\ Occurrences(last'.guess, L) = 1) =>
                    \A q \in Positions \ {p} : L \in knowledge'.possible_letters[q]]_vars

\* C18 amended: a letter L Misplaced at p is not possible at p afterwards, and
\* when L occurs nowhere else in the guess every other position whose feedback
\* is not Correct keeps L if it had it (all of them, from a fresh Knowledge).
C18_MisplacedRemovesAtPositionOnly ==
  [][UpdateStep =>
       \A p \in Positions :
          last'.result[p] = Misplaced =>
            LET L == last'.guess[p]
            IN /\ L \notin knowledge'.possible_letters[p]
               /\ Occurrences(last'.guess, L) = 1 =>
                    \A q \in Positions \ {p} :
                       (last'.result[q] # Correct /\ L \in knowledge.possible_letters[q])
                          => L \in knowledge'.possible_letters[q]]_vars

\* The first update had a letter Misplaced once, another position Correct, and
\* the letter is possible at the three remaining positions.
C18_Witness ==
  /\ last.op = "update" /\ calls = 1
  /\ \E p, q \in Positions :
        /\ last.result[p] = Misplaced /\ last.result[q] = Correct
        /\ Occurrences(last.guess, last.guess[p]) = 1
        /\ last.guess[p] \notin knowledge.possible_letters[p]
        /\ \A r \in Positions \ {p} :
              last.result[r] # Correct => last.guess[p] \in knowledge.possible_letters[r]

\* C19: a letter L that is Absent at some position of the guess and has no
\* Correct or Misplaced position in it is afterwards possible at no position
\* that was not fixed, positions that were fixed keep or lack L as before, and
\* from a fresh Knowledge L is possible at none of the five positions.
C19_AbsentRemovesFromNonFixed ==
  [][UpdateStep =>
       \A L \in Range(last'.guess) :
          (/\ \E p \in Positions : last'.guess[p] = L /\ last'.result[p] = Absent
           /\ PositiveCount(last'.guess, last'.result, L) = 0) =>
            /\ \A q \in Positions :
                  /\ ~knowledge.fixed_positions[q] => L \notin knowledge'.possible_letters[q]
                  /\ (knowledge.fixed_positions[q] /\ last'.result[q] # Correct) =>
                       (L \in knowledge'.possible_letters[q]
                          <=> L \in knowledge.possible_letters[q])
            /\ knowledge = Knowledge_new =>
                 \A q \in Positions : L \notin knowledge'.possible_letters[q]]_vars

\* A letter pinned by the first update was Absent, without a positive hit, in
\* the second: it is still possible at its fixed position and at no other.
C19_Witness ==
  /\ last.op = "update" /\ calls = 2
  /\ \E p, q \in Positions :
        LET L == last.guess[p]
        IN /\ last.result[p] = Absent
           /\ PositiveCount(last.guess, last.result, L) = 0
           /\ knowledge.fixed_positions[q] /\ last.result[q] # Correct
           /\ L \in knowledge.possible_letters[q]
           /\ \E r \in Positions : ~knowledge.fixed_positions[r]
           /\ \A r \in Positions :
                 ~knowledge.fixed_positions[r] => L \notin knowledge.possible_letters[r]

\* C20 as claimed: a letter L Absent at p and Correct or Misplaced elsewhere in
\* the guess is removed from possible_letters[p] only: every position where L
\* was possible and where the guess does not hold L still permits L.
C20_AbsentWithHitKeepsLetterElsewhere ==
  [][UpdateStep =>
       \A p \in Positions :
          LET L == last'.guess[p]
          IN (last'.result[p] = Absent /\ PositiveCount(last'.guess, last'.result, L) > 0) =>
               /\ L \notin knowledge'.possible_letters[p]
               /\ \A q \in Positions :
                     (last'.guess[q] # L /\ L \in knowledge.possible_letters[q])
                        => L \in knowledge'.possible_letters[q]]_vars

\* C20 amended: as claimed, for the positions whose feedback is not Correct; a
\* position that is Correct for another letter permits only that letter.
C20_AbsentWithHitRemovesAtPositionOnly ==
  [][UpdateStep =>
       \A p \in Positions :
          LET L == last'.guess[p]
          IN (last'.result[p] = Absent /\ PositiveCount(last'.guess, last'.result, L) > 0) =>
               /\ L \notin knowledge'.possible_letters[p]
               /\ \A q \in Positions :
                     (/\ last'.guess[q] # L /\ last'.result[q] # Correct
                      /\ L \in knowledge.possible_letters[q])
                        => L \in knowledge'.possible_letters[q]
               /\ \A q \in Positions :
                     (last'.guess[q] # L /\ last'.result[q] = Correct)
                        => knowledge'.possible_letters[q] = {last'.guess[q]}]_vars

\* The first update had a letter Absent at one position and Misplaced at
\* another, and the letter is still possible at a position holding another
\* letter.
C20_Witness ==
  /\ last.op = "update" /\ calls = 1
  /\ \E p, h, q \in Positions :
        LET L == last.guess[p]
        IN /\ last.result[p] = Absent
           /\ last.guess[h] = L /\ last.result[h] = Misplaced
           /\ last.guess[q] # L /\ last.result[q] # Correct
           /\ L \notin knowledge.possible_letters[p]
           /\ L \in knowledge.possible_letters[q]

\* The letters of the last guess that have a positive hit and an Absent position.
CappedLetters ==
  {L \in Range(last.guess) :
     /\ PositiveCount(last.guess, last.result, L) > 0
     /\ \E p \in Positions : last.guess[p] = L /\ last.result[p] = Absent}

PresenceFrequencies ==
  [counts |-> [L \in all_letters |->
                 Cardinality({i \in CandidateIndices :
                                \E p \in Positions : wordlist[i][p] = L})],
   total  |-> Cardinality(CandidateIndices)]

\* The score of a word under the presence frequencies, in millionths of a bit.
PresenceScore(word) ==
  FirstOccurrenceValue(word, 1, PresenceFrequencies)
    + FirstOccurrenceValue(word, 2, PresenceFrequencies)
    + FirstOccurrenceValue(word, 3, PresenceFrequencies)
    + FirstOccurrenceValue(word, 4, PresenceFrequencies)
    + FirstOccurrenceValue(word, 5, PresenceFrequencies)

\* C22: with a non-empty candidate set C, HeuristicGuesser.make_guess returns a
\* member of C whose score is maximal in C, the score being computed from the
\* presence frequencies (words of C holding the letter, each once, over |C|);
\* over [apple, about, hello] a, e and l are in two of three words, p in one.
C22_ReturnsMaximalScore ==
  /\ (/\ last.op = "make_guess" /\ kind = HeuristicGuesser
      /\ CandidateIndices # {}) =>
        /\ \E i \in CandidateIndices : wordlist[i] = last.ret
        /\ \A i \in CandidateIndices :
              PresenceScore(wordlist[i]) <= PresenceScore(last.ret)
  /\ LET frequencies == calculate_letter_frequencies(<<apple, about, hello>>)
     IN /\ frequencies.total = 3
        /\ frequencies.counts["a"] = 2 /\ frequencies.counts["e"] = 2
        /\ frequencies.counts["l"] = 2 /\ frequencies.counts["p"] = 1

\* HeuristicGuesser returned, from three or more candidates left by an update,
\* a word that is not the first candidate and scores more than another one.
C22_Witness ==
  /\ last.op = "make_guess" /\ kind = HeuristicGuesser
  /\ knowledge # Knowledge_new
  /\ Cardinality(CandidateIndices) >= 3
  /\ last.ret # wordlist[KthCandidateIndex(1)]
  /\ \E i \in CandidateIndices : PresenceScore(wordlist[i]) < PresenceScore(last.ret)

\* The list entries EntropyGuesser scans, and the entropy, in millionths of a
\* bit, of the partition of the candidates by the pattern a guess would get.
AllowedIndices == {i \in DOMAIN wordlist : wordlist[i] \notin invalid_words}
PatternsOf(word) == {take_guess(wordlist[i], word) : i \in CandidateIndices}
PatternCount(word, pattern) ==
  Cardinality({i \in CandidateIndices : take_guess(wordlist[i], word) = pattern})
RECURSIVE SumPLogP(_, _)
SumPLogP(word, patterns) ==
  IF patterns = {} THEN 0
  ELSE LET pattern == CHOOSE x \in patterns : TRUE
       IN PLogP[Cardinality(CandidateIndices)][PatternCount(word, pattern)]
            + SumPLogP(word, patterns \ {pattern})
PartitionEntropy(word) == SumPLogP(word, PatternsOf(word))

\* The list indices a max-by-score selection chooses among, and their scores.
HeuristicChoice == last.op = "make_guess" /\ kind = HeuristicGuesser /\ CandidateIndices # {}
EntropyScan ==
  last.op = "make_guess" /\ kind = EntropyGuesser /\ Cardinality(CandidateIndices) > 2
BestHeuristic ==
  {i \in CandidateIndices :
     \A j \in CandidateIndices : PresenceScore(wordlist[j]) <= PresenceScore(wordlist[i])}
BestEntropy ==
  {i \in AllowedIndices :
     \A j \in AllowedIndices : PartitionEntropy(wordlist[j]) <= PartitionEntropy(wordlist[i])}
MaxOf(S) == CHOOSE x \in S : \A y \in S : y <= x

\* C23 as claimed: of several words with the maximum score HeuristicGuesser
\* returns the first in candidate order and EntropyGuesser the first in
\* word-list order.
C23_FirstMaximumWins ==
  /\ HeuristicChoice => last.ret = wordlist[MinOf(BestHeuristic)]
  /\ EntropyScan => last.ret = wordlist[MinOf(BestEntropy)]

\* C23 amended: of several words with the maximum score HeuristicGuesser
\* returns the last in candidate order and EntropyGuesser the last in word-list
\* order.
C23_LastMaximumWins ==
  /\ HeuristicChoice => last.ret = wordlist[MaxOf(BestHeuristic)]
  /\ EntropyScan => last.ret = wordlist[MaxOf(BestEntropy)]

\* HeuristicGuesser returned the later of two different candidates that both
\* have the maximum score.
C23_Witness ==
  /\ HeuristicChoice
  /\ \E i, j \in BestHeuristic : i < j /\ wordlist[i] # wordlist[j]
  /\ last.ret = wordlist[MaxOf(BestHeuristic)]
  /\ last.ret # wordlist[MinOf(BestHeuristic)]

\* C24: with more than two candidates EntropyGuesser.make_guess returns a word
\* of the list, candidate or not, that is not marked invalid and whose
\* partition of the candidates by feedback pattern has the largest entropy of
\* all such words; the pattern counts of every scanned word sum to |C|.
C24_ReturnsMaximalEntropy ==
  EntropyScan =>
    /\ \E i \in AllowedIndices : wordlist[i] = last.ret
    /\ \A i \in AllowedIndices :
          PartitionEntropy(wordlist[i]) <= PartitionEntropy(last.ret)
    /\ \A i \in AllowedIndices :
          LET counts == pattern_counts(wordlist[i],
                                       get_candidates(wordlist, invalid_words, knowledge))
          IN /\ SumFn(counts, DOMAIN counts) = Cardinality(CandidateIndices)
             /\ DOMAIN counts = PatternsOf(wordlist[i])
             /\ \A pattern \in DOMAIN counts :
                   counts[pattern] = PatternCount(wordlist[i], pattern)

\* EntropyGuesser returned a word that is not a candidate and splits the
\* candidates better than every candidate does.
C24_Witness ==
  /\ EntropyScan
  /\ \A i \in CandidateIndices :
        /\ wordlist[i] # last.ret
        /\ PartitionEntropy(wordlist[i]) < PartitionEntropy(last.ret)

\* Knowledge::update with the oracle's answer for the secret of the game.
HonestUpdate(K, guess) == Knowledge_update(K, guess, take_guess(secret, guess))

\* C25: under honest feedback for one secret (SpecKnowledgeHonest), two updates
\* applied to the knowledge in either order give the same possible_letters,
\* must_contain and fixed_positions, and an update applied twice gives the same
\* as applied once.
C25_HonestUpdatesCommute ==
  \A g1 \in Range(WordPool) :
     /\ HonestUpdate(HonestUpdate(knowledge, g1), g1) = HonestUpdate(knowledge, g1)
     /\ \A g2 \in Range(WordPool) :
           LET forth == HonestUpdate(HonestUpdate(knowledge, g1), g2)
               back  == HonestUpdate(HonestUpdate(knowledge, g2), g1)
           IN /\ forth.possible_letters = back.possible_letters
              /\ forth.must_contain = back.must_contain
              /\ forth.fixed_positions = back.fixed_positions

\* The knowledge is the outcome of two honest updates with different wrong
\* guesses, one of which pinned a position and the other of which had a letter
\* Absent without a positive hit, and it is the same in both orders.
C25_Witness ==
  /\ calls = 2 /\ last.op = "update"
  /\ \E g1, g2 \in Range(WordPool) \ {secret} :
        /\ g1 # g2
        /\ \E p \in Positions : take_guess(secret, g1)[p] = Correct
        /\ \E p \in Positions :
              /\ take_guess(secret, g2)[p] = Absent
              /\ PositiveCount(g2, take_guess(secret, g2), g2[p]) = 0
        /\ HonestUpdate(Knowledge_new, g1) # HonestUpdate(Knowledge_new, g2)
        /\ last.guess = g2
        /\ knowledge = HonestUpdate(HonestUpdate(Knowledge_new, g1), g2)
        /\ knowledge = HonestUpdate(HonestUpdate(Knowledge_new, g2), g1)

\* C26: under honest feedback for one secret, starting from a fresh Knowledge
\* (SpecKnowledgeHonest), after update(guess, feedback) with guess # secret the
\* guess does not satisfy Knowledge.matches, and a wrong word that does not
\* match does not match after any later update either.
C26_WrongGuessNeverMatchesAgain ==
  /\ []((last.op = "update" /\ last.guess # secret)
          => ~Knowledge_matches(knowledge, last.guess))
  /\ [][\A word \in Range(WordPool) \ {secret} :
          (last'.op = "update" /\ ~Knowledge_matches(knowledge, word))
             => ~Knowledge_matches(knowledge', word)]_vars

\* Two wrong guesses have been played; the first would still match the
\* knowledge of the second update alone, and matches neither after its own
\* update nor after the second one.
C26_Witness ==
  /\ calls = 2 /\ last.op = "update" /\ last.guess # secret
  /\ \E g1 \in Range(WordPool) \ {secret, last.guess} :
        /\ knowledge = HonestUpdate(HonestUpdate(Knowledge_new, g1), last.guess)
        /\ Knowledge_matches(HonestUpdate(Knowledge_new, last.guess), g1)
        /\ ~Knowledge_matches(HonestUpdate(Knowledge_new, g1), g1)
        /\ ~Knowledge_matches(knowledge, g1)
        /\ ~Knowledge_matches(knowledge, last.guess)

\* C30: Game.take_guess with an unlisted word returns Err(WordNotInList) and
\* leaves attempts, max_attempts and the solution unchanged; with a listed word
\* it increases attempts by exactly one and returns Won (with the feedback) iff
\* the guess equals the solution, otherwise Lost carrying the feedback and the
\* solution iff attempts is then at least max_attempts, otherwise Continue with
\* the feedback.
C30_TakeGuessOutcome ==
  [][LET guess == game_last'.guess
         ret == game_last'.ret
     IN IF guess \notin GameWords
          THEN /\ ret = [tag |-> "WordNotInList"]
               /\ game' = game
          ELSE /\ game' = [game EXCEPT !.attempts = game.attempts + 1]
               /\ ret.tag \in {"Won", "Lost", "Continue"}
               /\ ret.tag = "Won" <=> guess = game.solution
               /\ guess # game.solution =>
                    (ret.tag = "Lost" <=> game'.attempts >= game.max_attempts)
               /\ ret.tag = "Lost" =>
                    /\ ret.solution = game.solution
                    /\ ret.last_guess = take_guess(game.solution, guess)
               /\ ret.tag \in {"Won", "Continue"} =>
                    ret.result = take_guess(game.solution, guess)]_vars

\* A wrong listed word used up the second and last attempt and the game
\* returned Lost with the feedback and the solution.
C30_Witness ==
  /\ game.max_attempts = 2 /\ game.attempts = 2
  /\ game_last.guess \in GameWords \ {game.solution}
  /\ game_last.ret.tag = "Lost"
  /\ game_last.ret.solution = game.solution
  /\ game_last.ret.last_guess = take_guess(game.solution, game_last.guess)

\* C27: in the loop guess = make_guess(); update(guess, feedback for the secret),
\* with the secret in the word list and never marked invalid, RandomWithUpdates
\* and HeuristicGuesser always return a word, every update after a wrong guess
\* leaves strictly fewer candidates and the secret among them, and the loop
\* goes on after every wrong guess, which is at most the (|wordlist| - 1)-th:
\* the secret is returned by the |wordlist|-th guess at the latest.
C27_CandidatesShrink ==
  /\ []((kind \in {RandomWithUpdates, HeuristicGuesser} /\ last.op = "make_guess")
          => /\ IsWord(last.ret)
             /\ calls + 1 <= Len(wordlist)
             /\ last.ret # secret => ENABLED DriveUpdate)
  /\ []((kind \in {RandomWithUpdates, HeuristicGuesser} /\ last.op = "update")
          => secret \in Range(get_candidates(wordlist, invalid_words, knowledge)))
  /\ [][(kind \in {RandomWithUpdates, HeuristicGuesser} /\ last'.op = "update")
          => Len(get_candidates(wordlist, invalid_words, knowledge'))
               < Len(get_candidates(wordlist, invalid_words, knowledge))]_vars

\* After one guess was rejected as invalid and two wrong guesses were
\* answered, the fourth guess is the secret.
C27_Witness ==
  /\ kind \in {RandomWithUpdates, HeuristicGuesser}
  /\ Cardinality(marked) = 1
  /\ calls = 3
  /\ last.op = "make_guess" /\ last.ret = secret

\* C28: in the same loop with no word marked invalid, no update of
\* EntropyGuesser after a wrong guess leaves the candidates as they were with
\* the same word chosen again at the next turn, and EntropyGuesser returns the
\* secret within the turns the loop is followed for: no wrong guess is its
\* MaxTurns-th.
C28_EntropyProgress ==
  /\ [][(kind = EntropyGuesser /\ invalid_words = {} /\ last'.op = "update")
          => ~ /\ get_candidates(wordlist, invalid_words, knowledge')
                    = get_candidates(wordlist, invalid_words, knowledge)
               /\ last'.guess
                    \in EntropyGuesser_make_guess(wordlist, invalid_words, knowledge')]_vars
  /\ []((kind = EntropyGuesser /\ invalid_words = {} /\ last.op = "make_guess")
          => (last.ret = secret \/ ENABLED DriveUpdate))

AttemptsAllowed == IF game.max_attempts = 0 THEN 1 ELSE game.max_attempts

\* make_guess has a value to return, so that the loop can take a step.
CanGuess == make_guess(kind, wordlist, invalid_words, knowledge, available_indices) # {}

\* The loop of simulate_game made a guess in this step.
Guessed == game_last'.guess # NoWord /\ sim'.num_guesses = sim.num_guesses + 1

====
